---- MODULE Spec2Model ----
(***************************************************************************)
(* Model of app.py: the amount normaliser to_number_strict, the            *)
(* spreadsheet writer save_excel_with_comma_format, the collection loop    *)
(* and the designation of the "amount" columns.                            *)
(*                                                                         *)
(* Text is a sequence of characters.  A character is a one-letter string,  *)
(* or a name for a character outside ASCII:                                *)
(*   NBSP U+00A0  BOM U+FEFF  NNBSP U+202F  THIN U+2009  HAIR U+200A       *)
(*   FIG U+2007   ZWSP U+200B ZWNJ U+200C   ZWJ U+200D   WJ U+2060         *)
(*   SHY U+00AD   WON U+20A9  WONCH U+C6D0  NBHY U+2011  UMINUS U+2212     *)
(*   ENDASH U+2013  EMDASH U+2014  TRI_W U+25B3  TRI_B U+25B2  NL U+000A   *)
(*                                                                         *)
(* A number is a decimal  (-1)^neg * m * 10^e  of kind "int" or "float";   *)
(* the missing marker (NaN / None) is the value of kind "missing".         *)
(***************************************************************************)
EXTENDS Integers, Sequences, FiniteSets, TLC

VARIABLES
    pc,          \* position of the operation under way
    x,           \* to_number_strict: the argument
    result,      \* to_number_strict: the value returned
    result2,     \* to_number_strict applied to str(result)
    df,          \* save_excel_with_comma_format: the caller's dataset
    df0,         \* the dataset as it was when the call was made
    normalized,  \* pipeline: the columns passed through to_number_strict
    sheet,       \* the cells of the written file
    queue,       \* collection loop: the (year, code) pairs still to fetch
    fetched,     \* collection loop: the outcome of every fetch made, in order
    result_list, \* collection loop: the collected results
    successes,   \* collection loop: st.success messages
    warnings,    \* collection loop: st.warning messages
    errors       \* collection loop: st.error messages

vars == <<pc, x, result, result2, df, df0, normalized, sheet,
          queue, fetched, result_list, successes, warnings, errors>>

-----------------------------------------------------------------------------
(* Characters *)

DigitSeq == <<"0", "1", "2", "3", "4", "5", "6", "7", "8", "9">>

Digits == {DigitSeq[i] : i \in 1..Len(DigitSeq)}

DigitChar(d) == DigitSeq[d + 1]

DigitVal(c) == CHOOSE d \in 0..9 : DigitSeq[d + 1] = c

InvisibleChars ==
    {"NBSP", "BOM", "NNBSP", "THIN", "HAIR", "FIG",
     "ZWSP", "ZWNJ", "ZWJ", "WJ", "SHY"}

CurrencyChars == {",", "WON", "WONCH"}

DashChars == {"NBHY", "UMINUS", "ENDASH", "EMDASH"}

TriangleChars == {"TRI_W", "TRI_B"}

\* what str.strip() and \s take for white space, among the characters left
\* once InvisibleChars are gone
Whitespace == {" ", "NL"}

KeptChars == Digits \cup {"-", ".", "+"}

-----------------------------------------------------------------------------
(* Values *)

Missing == [kind |-> "missing", neg |-> FALSE, m |-> 0, e |-> 0]

RECURSIVE Canon(_, _)
\* the decimal m * 10^e with no trailing zero in m
Canon(m, e) ==
    IF m = 0 THEN <<0, 0>>
    ELSE IF m % 10 = 0 THEN Canon(m \div 10, e + 1)
    ELSE <<m, e>>

\* an integer: no sign on zero
IntVal(neg, m) ==
    [kind |-> "int", neg |-> neg /\ m # 0,
     m |-> Canon(m, 0)[1], e |-> Canon(m, 0)[2]]

FloatVal(neg, m, e) ==
    [kind |-> "float", neg |-> neg, m |-> Canon(m, e)[1], e |-> Canon(m, e)[2]]

IsNumber(v) == v.kind \in {"int", "float"}

\* numeric equality (42 == 42.0, -0.0 == 0), the missing marker equal to itself
NumEq(v, w) ==
    IF IsNumber(v) /\ IsNumber(w)
    THEN /\ v.m = w.m
         /\ v.e = w.e
         /\ (v.m # 0 => v.neg = w.neg)
    ELSE v.kind = w.kind

Negated(v) == [v EXCEPT !.neg = (~v.neg) /\ v.m # 0]

-----------------------------------------------------------------------------
(* Text helpers *)

Remove(s, chars) == SelectSeq(s, LAMBDA c : c \notin chars)

RECURSIVE LStrip(_)
LStrip(s) ==
    IF s # <<>> /\ Head(s) \in Whitespace THEN LStrip(Tail(s)) ELSE s

RECURSIVE RStrip(_)
RStrip(s) ==
    IF s # <<>> /\ s[Len(s)] \in Whitespace
    THEN RStrip(SubSeq(s, 1, Len(s) - 1))
    ELSE s

Strip(s) == RStrip(LStrip(s))

RECURSIVE DigitsValue(_)
DigitsValue(s) ==
    IF s = <<>> THEN 0
    ELSE 10 * DigitsValue(SubSeq(s, 1, Len(s) - 1)) + DigitVal(s[Len(s)])

RECURSIVE NatToDigits(_)
NatToDigits(n) ==
    IF n < 10 THEN <<DigitChar(n)>>
    ELSE NatToDigits(n \div 10) \o <<DigitChar(n % 10)>>

Zeros(n) == [i \in 1..n |-> "0"]

RECURSIVE DropLeadingZeros(_)
DropLeadingZeros(s) ==
    IF s # <<>> /\ Head(s) = "0" THEN DropLeadingZeros(Tail(s)) ELSE s

RECURSIVE DropTrailingZeros(_)
DropTrailingZeros(s) ==
    IF s # <<>> /\ s[Len(s)] = "0"
    THEN DropTrailingZeros(SubSeq(s, 1, Len(s) - 1))
    ELSE s

\* the decimal  ds * 10^e0  of a string of digits, as <<m, e>> with no
\* trailing zero in m
DecimalOf(ds, e0) ==
    LET a == DropLeadingZeros(ds)
        b == DropTrailingZeros(a)
    IN  IF b = <<>> THEN <<0, 0>>
        ELSE <<DigitsValue(b), e0 + Len(a) - Len(b)>>

-----------------------------------------------------------------------------
(* Cell values: the union of null / number / text the feed delivers *)

Null == [tag |-> "null", val |-> Missing, text |-> <<>>]

Num(v) == [tag |-> "num", val |-> v, text |-> <<>>]

Text(s) == [tag |-> "text", val |-> Missing, text |-> s]

\* pd.isna on a scalar
isna(c) == c.tag = "null"

\* repr of a float: the shortest digits, in exponent notation when the
\* decimal point falls left of 0.0001 or right of 16 digits
FloatRepr(v) ==
    LET ds    == NatToDigits(v.m)
        n     == Len(ds)
        decpt == n + v.e
        sign  == IF v.neg THEN <<"-">> ELSE <<>>
        ex    == decpt - 1
        exabs == IF ex < 0 THEN 0 - ex ELSE ex
        exds  == IF exabs < 10 THEN <<"0">> \o NatToDigits(exabs)
                 ELSE NatToDigits(exabs)
    IN  sign \o
        (IF v.m = 0 THEN <<"0", ".", "0">>
         ELSE IF decpt > -4 /\ decpt <= 16
         THEN IF decpt <= 0 THEN <<"0", ".">> \o Zeros(0 - decpt) \o ds
              ELSE IF decpt >= n THEN ds \o Zeros(decpt - n) \o <<".", "0">>
              ELSE SubSeq(ds, 1, decpt) \o <<".">> \o SubSeq(ds, decpt + 1, n)
         ELSE <<ds[1]>>
              \o (IF n > 1 THEN <<".">> \o SubSeq(ds, 2, n) ELSE <<>>)
              \o <<"e", IF ex < 0 THEN "-" ELSE "+">> \o exds)

\* str() of a returned value
StrOfValue(v) ==
    CASE v.kind = "missing" -> <<"n", "a", "n">>
      [] v.kind = "int"     -> (IF v.neg THEN <<"-">> ELSE <<>>)
                               \o NatToDigits(v.m) \o Zeros(v.e)
      [] v.kind = "float"   -> FloatRepr(v)

\* str(x) of a cell that is not null
str(c) == IF c.tag = "text" THEN c.text ELSE StrOfValue(c.val)

-----------------------------------------------------------------------------
(* pd.to_numeric(..., errors="coerce") on one string *)

\* an exception leaving the call, in place of a value
Raised == [kind |-> "raised", neg |-> FALSE, m |-> 0, e |-> 0]

\* errors="raise"
ParseFailureRaises == Raised

\* errors="coerce": a string that does not parse gives NaN
ParseFailure == Missing

\* the parse: white space around is skipped, one optional sign, digits with at
\* most one decimal point and at least one digit.  A string of digits alone
\* gives an integer, one with a decimal point a float.
to_numeric(t) ==
    LET s      == Strip(t)
        signed == s # <<>> /\ s[1] \in {"-", "+"}
        neg    == s # <<>> /\ s[1] = "-"
        body   == IF signed THEN Tail(s) ELSE s
        dots   == {i \in 1..Len(body) : body[i] = "."}
        ok     == /\ \A i \in 1..Len(body) : body[i] \in Digits \cup {"."}
                  /\ Cardinality(dots) <= 1
                  /\ \E i \in 1..Len(body) : body[i] \in Digits
    IN  IF ~ok THEN ParseFailure
        ELSE IF dots = {}
        THEN LET v == DecimalOf(body, 0)
             IN  [kind |-> "int", neg |-> neg /\ v[1] # 0, m |-> v[1], e |-> v[2]]
        ELSE LET d  == CHOOSE i \in dots : TRUE
                 ip == SubSeq(body, 1, d - 1)
                 fp == SubSeq(body, d + 1, Len(body))
                 v  == DecimalOf(ip \o fp, 0 - Len(fp))
             IN  [kind |-> "float", neg |-> neg, m |-> v[1], e |-> v[2]]

-----------------------------------------------------------------------------
(* to_number_strict *)

StripInvisible(s) == Remove(s, InvisibleChars)

StripCurrency(s) == Strip(Remove(s, CurrencyChars))

NormalizeDashes(s) ==
    [i \in 1..Len(s) |-> IF s[i] \in DashChars THEN "-" ELSE s[i]]

\* re.sub(r"^[△▲]\s*", "-", s)
TriangleToMinus(s) ==
    IF s # <<>> /\ s[1] \in TriangleChars
    THEN <<"-">> \o LStrip(Tail(s))
    ELSE s

\* re.fullmatch(r"\(.*\)", s): "." matches any character but a newline
ParenFullMatch(s) ==
    /\ Len(s) >= 2
    /\ s[1] = "("
    /\ s[Len(s)] = ")"
    /\ \A i \in 2..(Len(s) - 1) : s[i] # "NL"

\* the parenthesis rule left out
ParenKept(s) == s

ParenToMinus(s) ==
    IF ParenFullMatch(s)
    THEN <<"-">> \o Strip(SubSeq(s, 2, Len(s) - 1))
    ELSE s

StripPlus(s) == IF s # <<>> /\ s[1] = "+" THEN Tail(s) ELSE s

FinalFilter(s) == SelectSeq(s, LAMBDA c : c \in KeptChars)

EmptyMarkers == {<<>>, <<"-">>, <<"-", "-">>, <<"+">>}

\* the string as it stands before the parenthesis rule
BeforeParen(s) == TriangleToMinus(NormalizeDashes(StripCurrency(StripInvisible(s))))

\* the string handed to the parse
Filtered(s) == FinalFilter(StripPlus(ParenToMinus(BeforeParen(s))))

to_number_strict(c) ==
    IF isna(c) THEN Missing
    ELSE LET s == Filtered(str(c))
         IN  IF s \in EmptyMarkers THEN Missing ELSE to_numeric(s)

-----------------------------------------------------------------------------
(* to_number_strict applied to one argument, then to str() of what it gave *)

MaxLen == 4

MaxExp == 17

Alphabet ==
    {"0", "1", ",", ".", "-", "+", "(", ")", "TRI_W", "WON", "ZWSP", " ", "a"}

RECURSIVE SeqsUpTo(_)
SeqsUpTo(n) ==
    IF n = 0 THEN {<<>>}
    ELSE LET shorter == SeqsUpTo(n - 1)
         IN  shorter \cup {Append(s, c) : s \in {t \in shorter : Len(t) = n - 1},
                                          c \in Alphabet}

\* renderings met in the feed, longer than MaxLen
Examples ==
    {<<"1", ",", "2", "3", "4", ",", "5", "6", "7">>,
     <<"(", "5", "0", "0", ")">>,
     <<"TRI_W", "3", "0", "0">>,
     <<"(", "WON", "5", "ZWSP", "0", "0", ")">>,
     <<"TRI_B", " ", "1", ",", "2", "NBSP", "3", "4">>,
     <<"WON", "1", ",", "2", "3", "4", "WONCH">>,
     <<"(", "1", ")", "(", "2", ")">>,
     <<"(", "1", "2", "3", "4", ")">>,
     <<"1", "-", "2">>,
     <<"1", ".", "2", ".", "3">>,
     <<"0", ".", "0", "0", "0", "0", "1">>,
     <<"-", "1", "2", "3", "4">>,
     <<"UMINUS", "4", "2">>,
     <<"1", " ", "2", "3", "4">>,
     <<"+", "5">>,
     <<"(", " ", "7", " ", ")">>,
     <<"TRI_W">>,
     <<"WON", ",">>,
     <<"(", "NL", "1", ")">>,
     <<"1", "2", ".", "5", "0">>}

NativeNumbers ==
    {IntVal(FALSE, 0), IntVal(FALSE, 42), IntVal(TRUE, 7), IntVal(FALSE, 1234567)}
    \cup {FloatVal(neg, m, e) : neg \in BOOLEAN, m \in {0, 1, 42, 125},
                                e \in (0 - MaxExp)..MaxExp}

NormInputs ==
    {Null}
    \cup {Num(v) : v \in NativeNumbers}
    \cup {Text(s) : s \in SeqsUpTo(MaxLen) \cup Examples}

NoDataset == <<>>

InitNorm ==
    /\ pc = "call"
    /\ x \in NormInputs
    /\ result = Missing
    /\ result2 = Missing
    /\ df = NoDataset
    /\ df0 = NoDataset
    /\ normalized = {}
    /\ sheet = NoDataset
    /\ queue = <<>>
    /\ fetched = <<>>
    /\ result_list = <<>>
    /\ successes = <<>>
    /\ warnings = <<>>
    /\ errors = <<>>

\* result = to_number_strict(x)
Normalize ==
    /\ pc = "call"
    /\ result' = to_number_strict(x)
    /\ pc' = "returned"
    /\ UNCHANGED <<x, result2, df, df0, normalized, sheet, queue, fetched,
                   result_list, successes, warnings, errors>>

\* result2 = to_number_strict(str(result))
Reapply ==
    /\ pc = "returned"
    /\ result.kind # "raised"
    /\ result2' = to_number_strict(Text(StrOfValue(result)))
    /\ pc' = "reapplied"
    /\ UNCHANGED <<x, result, df, df0, normalized, sheet, queue, fetched,
                   result_list, successes, warnings, errors>>

NextNorm == Normalize \/ Reapply

SpecNorm == InitNorm /\ [][NextNorm]_vars

-----------------------------------------------------------------------------
(* Properties of to_number_strict *)

NoiseChars == InvisibleChars \cup CurrencyChars

Called == pc \in {"returned", "reapplied"}

\* an amount magnitude written plainly: digits, at most one decimal point
PlainMagnitude(d) ==
    /\ \A i \in 1..Len(d) : d[i] \in Digits \cup {"."}
    /\ Cardinality({i \in 1..Len(d) : d[i] = "."}) <= 1
    /\ \E i \in 1..Len(d) : d[i] \in Digits

\* C1: a rendering of an amount magnitude with thousands commas, currency
\* markers and invisible characters anywhere gives the value of the plain
\* magnitude; wrapped in parentheses, or led by a triangle marker, it gives
\* the negated value.
C1_NoiseInvariant ==
    (Called /\ x.tag = "text") =>
        LET d == Remove(x.text, NoiseChars)
            n == Len(d)
        IN  /\ PlainMagnitude(d) => NumEq(result, to_numeric(d))
            /\ (n >= 2 /\ d[1] = "(" /\ d[n] = ")" /\ PlainMagnitude(SubSeq(d, 2, n - 1)))
                => NumEq(result, Negated(to_numeric(SubSeq(d, 2, n - 1))))
            /\ (n >= 1 /\ d[1] \in TriangleChars /\ PlainMagnitude(Tail(d)))
                => NumEq(result, Negated(to_numeric(Tail(d))))

C1_Witness ==
    /\ pc = "returned"
    /\ x = Text(<<"(", "WON", "5", "ZWSP", "0", "0", ")">>)
    /\ result = IntVal(TRUE, 500)

\* C2: to_number_strict(str(to_number_strict(x))) equals to_number_strict(x)
\* for every input x.
C2_Idempotent == pc = "reapplied" => NumEq(result2, result)

\* text over digits, "." and "-" that is a decimal number: one optional
\* leading minus, at most one point, at least one digit
ValidDecimal(s) ==
    /\ \A i \in 1..Len(s) : s[i] = "-" => i = 1
    /\ Cardinality({i \in 1..Len(s) : s[i] = "."}) <= 1
    /\ \E i \in 1..Len(s) : s[i] \in Digits

InvalidInput(c) ==
    \/ c.tag = "null"
    \/ /\ c.tag = "text"
       /\ \/ \A i \in 1..Len(c.text) : c.text[i] \notin Digits
          \/ /\ \A i \in 1..Len(c.text) : c.text[i] \in Digits \cup {".", "-"}
             /\ ~ValidDecimal(c.text)

\* C3: the call never raises and returns a number or the missing marker,
\* and the missing marker for null, for text without a digit and for text
\* whose filtered form is no decimal number.
C3_Total ==
    Called =>
        /\ result.kind \in {"missing", "int", "float"}
        /\ InvalidInput(x) => result = Missing

C3_Witness ==
    /\ pc = "returned"
    /\ x = Text(<<"1", ".", "2", ".", "3">>)
    /\ result = Missing

\* C8: a native numeric argument is returned as the same numeric value,
\* whatever its magnitude or rendering.
C8_NativePassThrough ==
    (Called /\ x.tag = "num") => NumEq(result, x.val)

Depth(s, i) ==
    Cardinality({j \in 1..i : s[j] = "("}) - Cardinality({j \in 1..i : s[j] = ")"})

\* s is wrapped in one pair of parentheses: the first character opens the
\* pair the last character closes
WrappedInOnePair(s) ==
    /\ Len(s) >= 2
    /\ s[1] = "("
    /\ s[Len(s)] = ")"
    /\ \A i \in 1..(Len(s) - 1) : Depth(s, i) > 0
    /\ Depth(s, Len(s)) = 0

ValueOf(s) == IF s \in EmptyMarkers THEN Missing ELSE to_numeric(s)

\* C9: a trimmed string wrapped in one matching pair of parentheses loses
\* them for one leading minus; any other string is not touched by the rule.
C9_SinglePairOnly ==
    (Called /\ x.tag = "text") =>
        LET s == BeforeParen(x.text)
        IN  IF WrappedInOnePair(s)
            THEN result = ValueOf(FinalFilter(StripPlus(
                              <<"-">> \o Strip(SubSeq(s, 2, Len(s) - 1)))))
            ELSE result = ValueOf(FinalFilter(StripPlus(s)))

-----------------------------------------------------------------------------
(* Column names *)

UpperSeq == <<"A", "B", "C", "D", "E", "F", "G", "H", "I", "J", "K", "L", "M">>
            \o <<"N", "O", "P", "Q", "R", "S", "T", "U", "V", "W", "X", "Y", "Z">>

LowerSeq == <<"a", "b", "c", "d", "e", "f", "g", "h", "i", "j", "k", "l", "m">>
            \o <<"n", "o", "p", "q", "r", "s", "t", "u", "v", "w", "x", "y", "z">>

\* str.lower()
Lower(s) ==
    [i \in 1..Len(s) |->
        IF \E k \in 1..Len(UpperSeq) : UpperSeq[k] = s[i]
        THEN LowerSeq[CHOOSE k \in 1..Len(UpperSeq) : UpperSeq[k] = s[i]]
        ELSE s[i]]

\* sub in s
Contains(s, sub) ==
    \E i \in 1..(Len(s) - Len(sub) + 1) : SubSeq(s, i, i + Len(sub) - 1) = sub

AmountWord == <<"a", "m", "o", "u", "n", "t">>

_norm_header(h) == Strip(Remove(Lower(h), InvisibleChars))

\* the writer's designation: "amount" in _norm_header(c)
InAmountCols(c) == Contains(_norm_header(c), AmountWord)

\* the pipeline's designation: "amount" in str(c).lower()
InAmountLikeCols(c) == Contains(Lower(c), AmountWord)

-----------------------------------------------------------------------------
(* save_excel_with_comma_format *)

NumFormat == <<"#", ",", "#", "#", "0">>

General == <<"G", "e", "n", "e", "r", "a", "l">>

BlankCell(fmt) == [type |-> "blank", val |-> Missing, text |-> <<>>, fmt |-> fmt]

NumberCell(v, fmt) == [type |-> "number", val |-> v, text |-> <<>>, fmt |-> fmt]

TextCell(s, fmt) == [type |-> "text", val |-> Missing, text |-> s, fmt |-> fmt]

\* float(v)
AsFloat(v) == IF v.kind = "int" THEN [v EXCEPT !.kind = "float"] ELSE v

\* pd.to_numeric(column, errors="coerce"): text is parsed as it stands, what
\* does not parse becomes NaN; the column is int64 when every cell is an
\* integer and float64 otherwise
ColumnToNumeric(cells) ==
    LET one(c) == CASE c.tag = "null" -> Null
                    [] c.tag = "num"  -> c
                    [] c.tag = "text" ->
                        LET v == to_numeric(c.text)
                        IN  IF IsNumber(v) THEN Num(v) ELSE Null
        conv   == [i \in 1..Len(cells) |-> one(cells[i])]
        allint == \A i \in 1..Len(conv) : conv[i].tag = "num" /\ conv[i].val.kind = "int"
    IN  [i \in 1..Len(conv) |->
            IF conv[i].tag = "num" /\ ~allint THEN Num(AsFloat(conv[i].val))
            ELSE conv[i]]

\* pass 1: every amount column of the caller's frame is assigned its coercion
CoerceAmountCols(d) ==
    [j \in 1..Len(d) |->
        IF InAmountCols(d[j].name)
        THEN [d[j] EXCEPT !.cells = ColumnToNumeric(d[j].cells)]
        ELSE d[j]]

\* a cell of a column that is not an amount column
WriteOtherCell(c) ==
    IF isna(c) THEN BlankCell(General)
    ELSE IF c.tag = "num" THEN NumberCell(AsFloat(c.val), General)
    ELSE TextCell(str(c), General)

\* an amount cell written as the cells of the other columns are
WriteAmountCellGeneric(c) == WriteOtherCell(c)

\* a cell of an amount column
WriteAmountCell(c) ==
    IF isna(c) THEN BlankCell(NumFormat)
    ELSE NumberCell(AsFloat(c.val), NumFormat)

\* pass 2: the header row and the cells, written one by one
WriteSheet(d) ==
    [header |-> [j \in 1..Len(d) |-> d[j].name],
     cols   |-> [j \in 1..Len(d) |->
                    IF InAmountCols(d[j].name)
                    THEN [i \in 1..Len(d[j].cells) |-> WriteAmountCell(d[j].cells[i])]
                    ELSE [i \in 1..Len(d[j].cells) |-> WriteOtherCell(d[j].cells[i])]]]

\* None when the text gives no number
_to_number_strict_openpyxl(s) ==
    LET f == Filtered(s)
        v == to_numeric(f)
    IN  IF f \in EmptyMarkers \/ ~IsNumber(v) THEN Missing ELSE AsFloat(v)

\* the column of the file a name of amount_cols stands for, 0 when none
ColIdx(header, col) ==
    LET exact == {k \in 1..Len(header) : header[k] = col}
        norm  == {k \in 1..Len(header) :
                     /\ InAmountCols(header[k])
                     /\ _norm_header(header[k]) = _norm_header(col)}
        min(S) == CHOOSE k \in S : \A l \in S : k <= l
    IN  IF exact # {} THEN min(exact)
        ELSE IF norm # {} THEN min(norm)
        ELSE 0

RepairCell(cell) ==
    IF cell.type = "text"
    THEN LET num == _to_number_strict_openpyxl(cell.text)
         IN  IF num # Missing THEN NumberCell(num, NumFormat) ELSE cell
    ELSE IF cell.type # "blank" THEN [cell EXCEPT !.fmt = NumFormat]
    ELSE cell

\* pass 3: the file reopened, the cells of the amount columns repaired
RepairSheet(d, sh) ==
    LET targets == {ColIdx(sh.header, d[j].name) :
                        j \in {k \in 1..Len(d) : InAmountCols(d[k].name)}}
    IN  [sh EXCEPT !.cols =
            [k \in 1..Len(sh.cols) |->
                IF k \in targets
                THEN [i \in 1..Len(sh.cols[k]) |-> RepairCell(sh.cols[k][i])]
                ELSE sh.cols[k]]]

MaxRows == 2

HeaderNames ==
    {<<"a", "m", "o", "u", "n", "t">>,
     <<"A", "m", "o", "u", "n", "t">>,
     <<"a", "m", "ZWSP", "o", "u", "n", "t">>,
     <<"n", "m">>}

Layouts ==
    {<<a>> : a \in HeaderNames}
    \cup {l \in HeaderNames \X HeaderNames : l[1] # l[2]}

CellValues ==
    {Null, Num(FloatVal(FALSE, 12345, -1)),
     Text(<<"1", ",", "2", "3", "4">>), Text(<<"1", "2">>), Text(<<"a">>)}

\* the dataset of layout l whose column j holds the cells cs[j]
Dataset(l, cs) == [j \in 1..Len(l) |-> [name |-> l[j], cells |-> cs[j]]]

\* df is some dataset of at most MaxRows rows
IsSomeDataset(d) ==
    \E l \in Layouts, n \in 1..MaxRows :
        \E cs \in [1..Len(l) -> [1..n -> CellValues]] :
            d = Dataset(l, cs)

InitSave ==
    /\ pc = "save"
    /\ IsSomeDataset(df)
    /\ df0 = df
    /\ sheet = NoDataset
    /\ x = Null
    /\ result = Missing
    /\ result2 = Missing
    /\ normalized = {}
    /\ queue = <<>>
    /\ fetched = <<>>
    /\ result_list = <<>>
    /\ successes = <<>>
    /\ warnings = <<>>
    /\ errors = <<>>

\* save_excel_with_comma_format(df, file_name)
Save ==
    /\ pc \in {"save", "normalized"}
    /\ LET coerced == CoerceAmountCols(df)
       IN  /\ df' = coerced
           /\ sheet' = RepairSheet(coerced, WriteSheet(coerced))
    /\ pc' = "saved"
    /\ UNCHANGED <<x, result, result2, df0, normalized, queue, fetched,
                   result_list, successes, warnings, errors>>

NextSave == Save

SpecSave == InitSave /\ [][NextSave]_vars

-----------------------------------------------------------------------------
(* The pipeline after concatenation: the amount-like columns are put
   through to_number_strict, then the dataset is saved *)

\* result_df[col].apply(to_number_strict), then pd.to_numeric(...).astype("float64")
NormalizeColumn(cells) ==
    [i \in 1..Len(cells) |->
        LET v == to_number_strict(cells[i])
        IN  IF IsNumber(v) THEN Num(AsFloat(v)) ELSE Null]

\* the columns of amount_like_cols
AmountLikeColumns(d) == {j \in 1..Len(d) : InAmountLikeCols(d[j].name)}

InitPipe ==
    /\ pc = "concat"
    /\ IsSomeDataset(df)
    /\ df0 = df
    /\ sheet = NoDataset
    /\ x = Null
    /\ result = Missing
    /\ result2 = Missing
    /\ normalized = {}
    /\ queue = <<>>
    /\ fetched = <<>>
    /\ result_list = <<>>
    /\ successes = <<>>
    /\ warnings = <<>>
    /\ errors = <<>>

NormalizeAmounts ==
    /\ pc = "concat"
    /\ df' = [j \in 1..Len(df) |->
                IF j \in AmountLikeColumns(df)
                THEN [df[j] EXCEPT !.cells = NormalizeColumn(df[j].cells)]
                ELSE df[j]]
    /\ normalized' = AmountLikeColumns(df)
    /\ pc' = "normalized"
    /\ UNCHANGED <<x, result, result2, df0, sheet, queue, fetched,
                   result_list, successes, warnings, errors>>

NextPipe == NormalizeAmounts \/ Save

SpecPipe == InitPipe /\ [][NextPipe]_vars

-----------------------------------------------------------------------------
(* The collection loop *)

MaxYears == 2

MaxCodes == 2

\* code_name_map.get(code, code)
CorpName(code) == <<"corp", code>>

\* for year in years: for code in codes
Pairs(ny, nc) ==
    [k \in 1..(ny * nc) |->
        [year |-> ((k - 1) \div nc) + 1, code |-> ((k - 1) % nc) + 1]]

\* what dart.finstate_all does for one pair: a frame with rows, no rows
\* (or no frame), or an exception
Outcomes == {"data", "empty", "raise"}

InitCollect ==
    /\ pc = "collect"
    /\ \E ny \in 1..MaxYears, nc \in 1..MaxCodes : queue = Pairs(ny, nc)
    /\ fetched = <<>>
    /\ result_list = <<>>
    /\ successes = <<>>
    /\ warnings = <<>>
    /\ errors = <<>>
    /\ x = Null
    /\ result = Missing
    /\ result2 = Missing
    /\ df = NoDataset
    /\ df0 = NoDataset
    /\ normalized = {}
    /\ sheet = NoDataset

\* the except clause with nothing reported
ReportNothing(errs, pair) == errs

\* st.error(f"{year} - {code} ...")
ReportError(errs, pair) == Append(errs, pair)

\* one turn of the loop body
Fetch ==
    /\ pc = "collect"
    /\ Len(fetched) < Len(queue)
    /\ LET pair == queue[Len(fetched) + 1]
       IN  \E o \in Outcomes :
            /\ fetched' = Append(fetched, [pair |-> pair, outcome |-> o])
            /\ result_list' =
                 IF o = "data"
                 THEN Append(result_list,
                             [year |-> pair.year, code |-> pair.code,
                              corp |-> CorpName(pair.code)])
                 ELSE result_list
            /\ successes' = IF o = "data" THEN Append(successes, pair) ELSE successes
            /\ warnings' = IF o = "empty" THEN Append(warnings, pair) ELSE warnings
            /\ errors' = IF o = "raise" THEN ReportError(errors, pair) ELSE errors
    /\ UNCHANGED <<pc, x, result, result2, df, df0, normalized, sheet, queue>>

\* the loop is over: nothing collected stops the run
EndCollect ==
    /\ pc = "collect"
    /\ Len(fetched) = Len(queue)
    /\ pc' = IF result_list = <<>> THEN "nodata" ELSE "collected"
    /\ UNCHANGED <<x, result, result2, df, df0, normalized, sheet, queue,
                   fetched, result_list, successes, warnings, errors>>

NextCollect == Fetch \/ EndCollect

SpecCollect == InitCollect /\ [][NextCollect]_vars

-----------------------------------------------------------------------------
(* Properties of save_excel_with_comma_format *)

AmountColumns(d) == {j \in 1..Len(d) : InAmountCols(d[j].name)}

\* C4: once the file is saved, every data cell of every amount column is a
\* number cell or a blank cell, never a text cell, with the format "#,##0".
C4_AmountCellsNumeric ==
    pc = "saved" =>
        \A j \in AmountColumns(df0) :
            \A i \in 1..Len(sheet.cols[j]) :
                /\ sheet.cols[j][i].type \in {"number", "blank"}
                /\ sheet.cols[j][i].fmt = NumFormat

C4_Witness ==
    /\ pc = "saved"
    /\ \E j \in AmountColumns(df0) :
          /\ \E i \in 1..Len(df0[j].cells) :
                df0[j].cells[i].tag = "text" /\ sheet.cols[j][i].type = "number"
          /\ \E i \in 1..Len(df0[j].cells) :
                df0[j].cells[i].tag = "null" /\ sheet.cols[j][i].type = "blank"

\* C5: an amount cell that arrives holding text is in the file the number
\* its text gives under the normaliser's parsing, or, when it gives none,
\* the original text; it is never a blank.
C5_TextNeverBlanked ==
    pc = "saved" =>
        \A j \in AmountColumns(df0) :
            \A i \in 1..Len(df0[j].cells) :
                df0[j].cells[i].tag = "text" =>
                    LET v == to_number_strict(df0[j].cells[i])
                    IN  IF IsNumber(v)
                        THEN /\ sheet.cols[j][i].type = "number"
                             /\ NumEq(sheet.cols[j][i].val, v)
                        ELSE /\ sheet.cols[j][i].type = "text"
                             /\ sheet.cols[j][i].text = df0[j].cells[i].text

\* C7: the call leaves the dataset passed to it as it was.
C7_DatasetUnchanged == pc = "saved" => df = df0

-----------------------------------------------------------------------------
(* Properties of the pipeline and of the collection loop *)

\* C10: the columns passed through to_number_strict before the write are
\* exactly the columns the writer treats as amount columns.
C10_SameDesignation ==
    pc \in {"normalized", "saved"} => normalized = AmountColumns(df0)

\* the pairs of the fetches with outcome o, in fetch order
PairsWith(o) ==
    LET hits == SelectSeq(fetched, LAMBDA f : f.outcome = o)
    IN  [k \in 1..Len(hits) |-> hits[k].pair]

\* C6: a fetch that raises does not end the batch: when the loop is over
\* every pair has been attempted in order, and all along the results are the
\* successful non-empty fetches in fetch order, there is one error per fetch
\* that raised, and the empty results are the warnings, apart from the errors.
C6_Isolation ==
    /\ pc \in {"nodata", "collected"} =>
            [k \in 1..Len(fetched) |-> fetched[k].pair] = queue
    /\ [k \in 1..Len(result_list) |->
            [year |-> result_list[k].year, code |-> result_list[k].code]]
         = PairsWith("data")
    /\ Len(errors) = Len(PairsWith("raise"))
    /\ errors = PairsWith("raise")
    /\ warnings = PairsWith("empty")

C6_Witness ==
    /\ pc = "collected"
    /\ Len(fetched) >= 3
    /\ fetched[1].outcome = "data"
    /\ fetched[2].outcome = "raise"
    /\ fetched[3].outcome = "data"
    /\ Len(result_list) = 2
    /\ Len(errors) = 1

====
